---- MODULE Spec2Model ----
(***************************************************************************)
(* Model of src/app.py: the Task Completion Dashboard script.              *)
(*                                                                         *)
(* One run of the script is one invocation: resolve the sheet URL to a    *)
(* CSV export URL, fetch the table, normalize its column names, classify  *)
(* every row (status, is_tatkal), aggregate, render.  Everything from     *)
(* line 39 to line 150 runs inside one try block whose handler is at      *)
(* lines 152-154.                                                          *)
(*                                                                         *)
(* Python strings are sequences of one-character strings, so that         *)
(* str.strip, str.lower and the regular expression of line 18 are         *)
(* computed character by character.                                        *)
(***************************************************************************)
EXTENDS Integers, Sequences, FiniteSets, TLC

VARIABLES
    pc,             \* position of the script
    sheet_url,      \* line 32
    csv_export_url, \* line 40
    src_columns,    \* the header row as fetched (df.columns before line 49)
    columns,        \* df.columns
    dtypes,         \* dtype of each column of df: "object" or "number"
    rows,           \* the rows of df, each a sequence of cells
    status,         \* df['status'], line 61
    is_tatkal,      \* df['is_tatkal'], lines 66 / 69
    metrics,        \* the counts of lines 73-75 and 90-94
    bound,          \* the names the script has assigned so far
    divisions,      \* the divisions the script has evaluated: <<numerator, denominator>>
    ui              \* what the script has rendered, in order

vars == <<pc, sheet_url, csv_export_url, src_columns, columns, dtypes, rows,
          status, is_tatkal, metrics, bound, divisions, ui>>

----------------------------------------------------------------------------
(* Bounds of the model *)

MaxUrlLen == 6
MaxCols == 3
MaxRows == 2

----------------------------------------------------------------------------
(* Characters and Python's str methods *)

UpperAlpha == <<"A", "B", "C", "D", "E", "F", "G", "H", "I", "J", "K", "L", "M",
                "N", "O", "P", "Q", "R", "S", "T", "U", "V", "W", "X", "Y", "Z">>
LowerAlpha == <<"a", "b", "c", "d", "e", "f", "g", "h", "i", "j", "k", "l", "m",
                "n", "o", "p", "q", "r", "s", "t", "u", "v", "w", "x", "y", "z">>
Digits == {"0", "1", "2", "3", "4", "5", "6", "7", "8", "9"}

Range(s) == {s[i] : i \in 1..Len(s)}

\* the characters str.strip() removes
Whitespace == {" ", "\t", "\n", "\r"}

RECURSIVE LStrip(_)
LStrip(s) ==
    IF s = <<>> THEN s
    ELSE IF Head(s) \in Whitespace THEN LStrip(Tail(s)) ELSE s

RECURSIVE RStrip(_)
RStrip(s) ==
    IF s = <<>> THEN s
    ELSE IF s[Len(s)] \in Whitespace THEN RStrip(SubSeq(s, 1, Len(s) - 1)) ELSE s

\* str.strip()
Strip(s) == RStrip(LStrip(s))

LowerChar(c) ==
    IF c \in Range(UpperAlpha)
    THEN LowerAlpha[CHOOSE i \in 1..Len(UpperAlpha) : UpperAlpha[i] = c]
    ELSE c

\* str.lower()
Lower(s) == [i \in 1..Len(s) |-> LowerChar(s[i])]

\* all sequences over S of length at most n
SeqsUpTo(S, n) == UNION {[1..k -> S] : k \in 0..n}

----------------------------------------------------------------------------
(* create_google_sheet_csv_url, lines 15-22 *)

\* Python's None; no string equals it, since every element of a string is
\* one character
None == <<"None">>

\* the character class [a-zA-Z0-9-_] of line 18
IdChars == Range(UpperAlpha) \cup Range(LowerAlpha) \cup Digits \cup {"-", "_"}

\* whether r'/d/([a-zA-Z0-9-_]+)' matches at position i of url
MatchesAt(url, i) ==
    /\ i + 3 <= Len(url)
    /\ url[i] = "/"
    /\ url[i + 1] = "d"
    /\ url[i + 2] = "/"
    /\ url[i + 3] \in IdChars

\* re.search: the leftmost position from i on where the pattern matches, 0 if none
RECURSIVE SearchFrom(_, _)
SearchFrom(url, i) ==
    IF i > Len(url) THEN 0
    ELSE IF MatchesAt(url, i) THEN i
    ELSE SearchFrom(url, i + 1)

\* a lazy +? in place of +: the group is one character
GroupEndLazy(url, j) == j

\* the greedy + of the group: the last position of the run of IdChars that
\* starts at j
RECURSIVE GroupEnd(_, _)
GroupEnd(url, j) ==
    IF j + 1 <= Len(url) /\ url[j + 1] \in IdChars
    THEN GroupEnd(url, j + 1)
    ELSE j

ExportPrefix ==
    <<"h", "t", "t", "p", "s", ":", "/", "/", "d", "o", "c", "s", ".", "g", "o",
      "o", "g", "l", "e", ".", "c", "o", "m", "/", "s", "p", "r", "e", "a", "d",
      "s", "h", "e", "e", "t", "s", "/", "d", "/">>
ExportSuffix ==
    <<"/", "e", "x", "p", "o", "r", "t", "?", "f", "o", "r", "m", "a", "t", "=",
      "c", "s", "v">>

create_google_sheet_csv_url(url) ==
    LET m == SearchFrom(url, 1)
    IN  IF m # 0
        THEN LET sheet_id == SubSeq(url, m + 3, GroupEnd(url, m + 3))
             IN  ExportPrefix \o sheet_id \o ExportSuffix
        ELSE None

\* line 32
HardcodedUrl ==
    <<"h", "t", "t", "p", "s", ":", "/", "/", "d", "o", "c", "s", ".", "g", "o",
      "o", "g", "l", "e", ".", "c", "o", "m", "/", "s", "p", "r", "e", "a", "d",
      "s", "h", "e", "e", "t", "s", "/", "d", "/", "1", "q", "w", "f", "A", "D",
      "B", "f", "4", "R", "2", "o", "w", "b", "9", "L", "b", "A", "N", "p", "U",
      "i", "O", "Z", "2", "Z", "o", "Q", "9", "T", "k", "9", "I", "p", "n", "P",
      "z", "1", "K", "A", "P", "p", "Y", "Q", "/", "e", "d", "i", "t", "?", "u",
      "s", "p", "=", "s", "h", "a", "r", "i", "n", "g">>

\* a document URL with no /d/ segment
NoDocUrl ==
    <<"h", "t", "t", "p", "s", ":", "/", "/", "d", "o", "c", "s", ".", "g", "o",
      "o", "g", "l", "e", ".", "c", "o", "m", "/", "s", "p", "r", "e", "a", "d",
      "s", "h", "e", "e", "t", "s", "/", "e", "d", "i", "t">>

ExampleUrl ==
    <<"h", "t", "t", "p", "s", ":", "/", "/", "e", "x", "a", "m", "p", "l", "e",
      ".", "c", "o", "m", "/", "s", "p", "r", "e", "a", "d", "s", "h", "e", "e",
      "t", "s", "/", "d", "/", "A", "B", "C", "1", "2", "3", "x", "y", "z", "/",
      "e", "d", "i", "t">>

\* the characters the bounded URLs are built from: the pattern's own "/" and
\* "d", two more identifier characters and one character outside the class
UrlAlphabet == {"/", "d", "a", "-", "."}

UrlInputs == SeqsUpTo(UrlAlphabet, MaxUrlLen) \cup {HardcodedUrl, NoDocUrl, ExampleUrl}

----------------------------------------------------------------------------
(* pd.read_csv, line 44: what the parser makes of the text of a CSV table *)

\* Python's str(float('nan'))
NanText == <<"n", "a", "n">>

\* some of the texts read_csv takes as missing by default (the empty cell is
\* the one a sheet export produces)
NaValues == {<<>>, <<"N", "A">>, <<"N", "a", "N">>, <<"n", "a", "n">>, <<"n", "u", "l", "l">>}

IsNumeric(raw) == raw # <<>> /\ \A i \in 1..Len(raw) : raw[i] \in Digits

\* dtype inference: a column of no rows is object; a column whose cells are
\* all missing or numeric is a number column (float64 or int64); any other
\* text makes it an object column
InferDtype(data, j) ==
    IF Len(data) = 0 THEN "object"
    ELSE IF \A i \in 1..Len(data) : data[i][j] \in NaValues \/ IsNumeric(data[i][j])
         THEN "number"
         ELSE "object"

\* a cell of df: kind is "nan" (missing), "num" or "str"; text is str(x).  An
\* integer column with a missing cell is float64, so 5 reads back as 5.0
ParseCell(raw, dtype, hasNa) ==
    IF raw \in NaValues THEN [kind |-> "nan", text |-> NanText]
    ELSE IF dtype = "number"
         THEN [kind |-> "num", text |-> IF hasNa THEN raw \o <<".", "0">> ELSE raw]
         ELSE [kind |-> "str", text |-> raw]

ReadCsvDtypes(t) == [j \in 1..Len(t.header) |-> InferDtype(t.data, j)]

ReadCsvRows(t) ==
    [i \in 1..Len(t.data) |->
        [j \in 1..Len(t.header) |->
            ParseCell(t.data[i][j], InferDtype(t.data, j),
                      \E k \in 1..Len(t.data) : t.data[k][j] \in NaValues)]]

----------------------------------------------------------------------------
(* Column normalization, lines 47-58 *)

K_sr_no_dot == <<"s", "r", ".", "n", "o", ".">>
V_sr_no == <<"s", "r", "_", "n", "o">>
K_dor == <<"d", ".", "o", ".", "r">>
V_date_of_receipt == <<"d", "a", "t", "e", "_", "o", "f", "_", "r", "e", "c", "e", "i", "p", "t">>
K_completion_date == <<"c", "o", "m", "p", "l", "e", "t", "i", "o", "n", " ", "d", "a", "t", "e">>
V_completion_date == <<"c", "o", "m", "p", "l", "e", "t", "i", "o", "n", "_", "d", "a", "t", "e">>
K_action_taken == <<"a", "c", "t", "i", "o", "n", " ", "t", "a", "k", "e", "n">>
V_action_taken == <<"a", "c", "t", "i", "o", "n", "_", "t", "a", "k", "e", "n">>
Remarks == <<"r", "e", "m", "a", "r", "k", "s">>
Priority == <<"p", "r", "i", "o", "r", "i", "t", "y">>
Tatkal == <<"t", "a", "t", "k", "a", "l">>

\* the columns= argument of df.rename, lines 52-58
RenameTable ==
    {<<K_sr_no_dot, V_sr_no>>,
     <<K_dor, V_date_of_receipt>>,
     <<K_completion_date, V_completion_date>>,
     <<K_action_taken, V_action_taken>>,
     <<Remarks, Remarks>>}

\* df.rename on one label: labels that are no key are kept
Rename(name) ==
    IF \E p \in RenameTable : p[1] = name
    THEN (CHOOSE p \in RenameTable : p[1] = name)[2]
    ELSE name

\* line 49
StandardizeColumns(cols) == [i \in 1..Len(cols) |-> Lower(Strip(cols[i]))]

\* lines 52-58
RenameColumns(cols) == [i \in 1..Len(cols) |-> Rename(cols[i])]

\* line 49 without .str.strip()
NormalizeColumnsNoStrip(cols) ==
    RenameColumns([i \in 1..Len(cols) |-> Lower(cols[i])])

\* df.rename called before line 49
NormalizeColumnsRenameFirst(cols) == StandardizeColumns(RenameColumns(cols))

NormalizeColumns(cols) == RenameColumns(StandardizeColumns(cols))

----------------------------------------------------------------------------
(* Classification, lines 60-69 *)

Has(cols, name) == \E i \in 1..Len(cols) : cols[i] = name

\* the position of the column df[name]
ColumnOf(cols, name) == CHOOSE i \in 1..Len(cols) : cols[i] = name

\* the lambda without pd.notna(x): str(nan) is 'nan'
StatusOfNoNotna(x) ==
    IF Strip(x.text) # <<>> THEN "Completed" ELSE "Pending"

\* the lambda of line 61
StatusOf(x) ==
    IF x.kind # "nan" /\ Strip(x.text) # <<>> THEN "Completed" ELSE "Pending"

\* line 66 without .str.lower()
TatkalOfNoLower(x) == x.kind = "str" /\ Strip(x.text) = Tatkal

\* line 66 on one cell of an object column: .str gives NaN for a missing
\* cell, and NaN == 'tatkal' is False
TatkalOf(x) == x.kind = "str" /\ Lower(Strip(x.text)) = Tatkal

\* the .str accessor of line 66 raises AttributeError on a column that is
\* not an object column
StrAccessorOk(dtype) == dtype = "object"

----------------------------------------------------------------------------
(* Aggregation, lines 73-75 and 89-94 *)

CountCompleted(st) == Cardinality({i \in 1..Len(st) : st[i] = "Completed"})

CountTatkal(tk) == Cardinality({i \in 1..Len(tk) : tk[i]})

\* line 93 filtering df in place of tatkal_df
CountCompletedTatkalOfDf(st, tk) == CountCompleted(st)

\* line 93: Completed rows of tatkal_df
CountCompletedTatkal(st, tk) ==
    Cardinality({i \in 1..Len(st) : tk[i] /\ st[i] = "Completed"})

----------------------------------------------------------------------------
(* What the script renders *)

SuccessNotice == "sidebar.success: Data loaded successfully"
InvalidUrlNotice == "sidebar.error: The hardcoded URL appears to be invalid"
FailureNotice == "sidebar.error: An error occurred while fetching or processing the data"
FailureDetail == "error: Error: e"
MissingPriorityWarning == "error: The 'priority' column was not found"
OverallHeader == "header: Overall Task Summary"
MetricTotal == "metric: Total Tasks"
MetricCompleted == "metric: Completed Tasks"
MetricPending == "metric: Pending Tasks"
TatkalHeader == "header: Tatkal Task Summary"
MetricTotalTatkal == "metric: Total Tatkal Tasks"
MetricCompletedTatkal == "metric: Completed Tatkal"
MetricPendingTatkal == "metric: Pending Tatkal"
NoTatkalInfo == "info: No 'Tatkal' tasks found in the data"
StatusPie == "plotly_chart: Overall Task Completion Status"
TatkalPie == "plotly_chart: Tatkal Task Completion Status"
NoTatkalViz == "info: No 'Tatkal' tasks to visualize"
RawDataView == "dataframe: df"

\* lines 152-154
ExceptHandler(u) == u \o <<FailureNotice, FailureDetail>>

----------------------------------------------------------------------------
(* The inputs of an invocation *)

\* the texts a cell of the sheet is drawn from: empty, whitespace only, a
\* number, a word, and the urgent label with other case and padding
RawCells ==
    {<<>>, <<" ">>, <<"5">>, <<"N", "o", "r", "m", "a", "l">>, <<" ", "T", "a", "t", "k", "a", "l", " ">>}

\* the header rows of the fetched sheets.  read_csv makes equal labels
\* distinct, and no two labels of these rows normalize to the same name
Layouts ==
    {<<<<"R", "e", "m", "a", "r", "k", "s">>, <<"P", "r", "i", "o", "r", "i", "t", "y">>>>,
     <<<<" ", "P", "R", "I", "O", "R", "I", "T", "Y", " ">>, <<"r", "e", "m", "a", "r", "k", "s">>>>,
     <<<<"R", "e", "m", "a", "r", "k", "s", " ">>>>,
     <<<<"P", "r", "i", "o", "r", "i", "t", "y">>>>,
     <<<<"S", "r", ".", "N", "o", ".">>>>}

Tables ==
    UNION {{[header |-> h, data |-> d] :
                d \in SeqsUpTo([1..Len(h) -> RawCells], MaxRows)} : h \in Layouts}

\* the configured document URL: the one of line 32, or one with no /d/ segment
SheetUrls == {HardcodedUrl, NoDocUrl}

\* the labels column normalization is run on
HeaderNames ==
    {<<"S", "r", ".", "N", "o", ".">>,
     <<" ", "D", ".", "O", ".", "R">>,
     <<"C", "o", "m", "p", "l", "e", "t", "i", "o", "n", " ", "D", "a", "t", "e">>,
     <<"A", "C", "T", "I", "O", "N", " ", "T", "A", "K", "E", "N", " ">>,
     <<"R", "e", "m", "a", "r", "k", "s">>,
     <<"P", "r", "i", "o", "r", "i", "t", "y">>,
     <<"s", "r", "_", "n", "o">>,
     <<"O", "t", "h", "e", "r">>,
     <<"s", "r", ".", "n", "o", ".">>,
     <<"\t", "r", "e", "m", "a", "r", "k", "s", " ">>}

Injective(q) == \A i, j \in 1..Len(q) : q[i] = q[j] => i = j

\* read_csv never yields two equal labels
HeaderInputs == {h \in SeqsUpTo(HeaderNames, MaxCols) : Injective(h)}

----------------------------------------------------------------------------
(* The state before line 38 *)

NoMetrics == [total_tasks |-> 0, completed_tasks |-> 0, pending_tasks |-> 0,
              total_tatkal_tasks |-> 0, completed_tatkal_tasks |-> 0,
              pending_tatkal_tasks |-> 0]

NoFrame ==
    /\ dtypes = <<>>
    /\ rows = <<>>
    /\ status = <<>>
    /\ is_tatkal = <<>>
    /\ metrics = NoMetrics
    /\ divisions = <<>>
    /\ ui = <<>>

Init ==
    /\ pc = "resolve"
    /\ sheet_url \in SheetUrls
    /\ csv_export_url = None
    /\ src_columns = <<>>
    /\ columns = <<>>
    /\ bound = {}
    /\ NoFrame

----------------------------------------------------------------------------
(* The script, lines 38-154 *)

\* lines 40-42 and 149-150
Resolve ==
    /\ pc = "resolve"
    /\ csv_export_url' = create_google_sheet_csv_url(sheet_url)
    /\ bound' = bound \cup {"csv_export_url"}
    /\ IF csv_export_url' # None
       THEN pc' = "fetch" /\ ui' = ui
       ELSE pc' = "done" /\ ui' = Append(ui, InvalidUrlNotice)
    /\ UNCHANGED <<sheet_url, src_columns, columns, dtypes, rows, status,
                   is_tatkal, metrics, divisions>>

\* lines 44-45, read_csv returns a table
FetchOk ==
    /\ pc = "fetch"
    /\ \E t \in Tables :
        /\ src_columns' = t.header
        /\ columns' = t.header
        /\ dtypes' = ReadCsvDtypes(t)
        /\ rows' = ReadCsvRows(t)
    /\ bound' = bound \cup {"df"}
    /\ ui' = Append(ui, SuccessNotice)
    /\ pc' = "normalize"
    /\ UNCHANGED <<sheet_url, csv_export_url, status, is_tatkal, metrics, divisions>>

\* the success notice of line 45 placed before the read of line 44
FetchFailAfterNotice ==
    /\ pc = "fetch"
    /\ ui' = ExceptHandler(Append(ui, SuccessNotice))
    /\ pc' = "done"
    /\ UNCHANGED <<sheet_url, csv_export_url, src_columns, columns, dtypes, rows,
                   status, is_tatkal, metrics, bound, divisions>>

\* line 44, read_csv raises (unreachable endpoint, HTTP error status,
\* unparseable body): control goes to line 152
FetchFail ==
    /\ pc = "fetch"
    /\ ui' = ExceptHandler(ui)
    /\ pc' = "done"
    /\ UNCHANGED <<sheet_url, csv_export_url, src_columns, columns, dtypes, rows,
                   status, is_tatkal, metrics, bound, divisions>>

\* lines 49-58
Normalize ==
    /\ pc = "normalize"
    /\ columns' = NormalizeColumns(columns)
    /\ pc' = "status"
    /\ UNCHANGED <<sheet_url, csv_export_url, src_columns, dtypes, rows, status,
                   is_tatkal, metrics, bound, divisions, ui>>

\* line 61; df['remarks'] raises KeyError when there is no such column
ClassifyStatus ==
    /\ pc = "status"
    /\ IF Has(columns, Remarks)
       THEN /\ status' = [i \in 1..Len(rows) |->
                            StatusOf(rows[i][ColumnOf(columns, Remarks)])]
            /\ bound' = bound \cup {"status"}
            /\ ui' = ui
            /\ pc' = "tatkal"
       ELSE /\ ui' = ExceptHandler(ui)
            /\ pc' = "done"
            /\ UNCHANGED <<status, bound>>
    /\ UNCHANGED <<sheet_url, csv_export_url, src_columns, columns, dtypes, rows,
                   is_tatkal, metrics, divisions>>

\* lines 65-69
ClassifyTatkal ==
    /\ pc = "tatkal"
    /\ IF Has(columns, Priority)
       THEN IF StrAccessorOk(dtypes[ColumnOf(columns, Priority)])
            THEN /\ is_tatkal' = [i \in 1..Len(rows) |->
                                    TatkalOf(rows[i][ColumnOf(columns, Priority)])]
                 /\ bound' = bound \cup {"is_tatkal"}
                 /\ ui' = ui
                 /\ pc' = "overall"
            ELSE /\ ui' = ExceptHandler(ui)
                 /\ pc' = "done"
                 /\ UNCHANGED <<is_tatkal, bound>>
       ELSE /\ ui' = Append(ui, MissingPriorityWarning)
            /\ is_tatkal' = [i \in 1..Len(rows) |-> FALSE]
            /\ bound' = bound \cup {"is_tatkal"}
            /\ pc' = "overall"
    /\ UNCHANGED <<sheet_url, csv_export_url, src_columns, columns, dtypes, rows,
                   status, metrics, divisions>>

\* lines 72-85; the division of line 81 raises ZeroDivisionError when
\* total_tasks is 0, after the metric of line 79 is rendered
OverallSummary ==
    /\ pc = "overall"
    /\ LET total_tasks == Len(rows)
           completed_tasks == CountCompleted(status)
           pending_tasks == total_tasks - completed_tasks
       IN  /\ metrics' = [metrics EXCEPT !.total_tasks = total_tasks,
                                         !.completed_tasks = completed_tasks,
                                         !.pending_tasks = pending_tasks]
           /\ bound' = bound \cup {"total_tasks", "completed_tasks", "pending_tasks"}
           /\ IF total_tasks # 0
              THEN /\ divisions' = divisions \o <<<<completed_tasks, total_tasks>>,
                                                  <<pending_tasks, total_tasks>>>>
                   /\ ui' = ui \o <<OverallHeader, MetricTotal, MetricCompleted,
                                    MetricPending>>
                   /\ pc' = "tatkal_summary"
              ELSE /\ divisions' = Append(divisions, <<completed_tasks, total_tasks>>)
                   /\ ui' = ExceptHandler(ui \o <<OverallHeader, MetricTotal>>)
                   /\ pc' = "done"
    /\ UNCHANGED <<sheet_url, csv_export_url, src_columns, columns, dtypes, rows,
                   status, is_tatkal>>

\* lines 88-104
TatkalSummary ==
    /\ pc = "tatkal_summary"
    /\ LET total_tatkal_tasks == CountTatkal(is_tatkal)
           completed_tatkal_tasks == CountCompletedTatkal(status, is_tatkal)
           pending_tatkal_tasks == total_tatkal_tasks - completed_tatkal_tasks
       IN  IF total_tatkal_tasks > 0
           THEN /\ metrics' = [metrics EXCEPT
                                 !.total_tatkal_tasks = total_tatkal_tasks,
                                 !.completed_tatkal_tasks = completed_tatkal_tasks,
                                 !.pending_tatkal_tasks = pending_tatkal_tasks]
                /\ bound' = bound \cup {"total_tatkal_tasks", "completed_tatkal_tasks",
                                        "pending_tatkal_tasks"}
                /\ divisions' = divisions \o
                                  <<<<completed_tatkal_tasks, total_tatkal_tasks>>,
                                    <<pending_tatkal_tasks, total_tatkal_tasks>>>>
                /\ ui' = ui \o <<TatkalHeader, MetricTotalTatkal,
                                 MetricCompletedTatkal, MetricPendingTatkal>>
           ELSE /\ metrics' = [metrics EXCEPT
                                 !.total_tatkal_tasks = total_tatkal_tasks]
                /\ bound' = bound \cup {"total_tatkal_tasks"}
                /\ divisions' = divisions
                /\ ui' = ui \o <<TatkalHeader, NoTatkalInfo>>
    /\ pc' = "render"
    /\ UNCHANGED <<sheet_url, csv_export_url, src_columns, columns, dtypes, rows,
                   status, is_tatkal>>

\* lines 108-147
Render ==
    /\ pc = "render"
    /\ ui' = ui \o <<StatusPie,
                     IF metrics.total_tatkal_tasks > 0 THEN TatkalPie ELSE NoTatkalViz,
                     RawDataView>>
    /\ pc' = "done"
    /\ UNCHANGED <<sheet_url, csv_export_url, src_columns, columns, dtypes, rows,
                   status, is_tatkal, metrics, bound, divisions>>

Next ==
    \/ Resolve
    \/ FetchOk
    \/ FetchFail
    \/ Normalize
    \/ ClassifyStatus
    \/ ClassifyTatkal
    \/ OverallSummary
    \/ TatkalSummary
    \/ Render

\* one invocation of the script
Spec == Init /\ [][Next]_vars

----------------------------------------------------------------------------
(* The resolver on every bounded URL *)

InitResolve ==
    /\ pc = "resolve"
    /\ sheet_url \in UrlInputs
    /\ csv_export_url = None
    /\ src_columns = <<>>
    /\ columns = <<>>
    /\ bound = {}
    /\ NoFrame

NextResolve == Resolve

SpecResolve == InitResolve /\ [][NextResolve]_vars

----------------------------------------------------------------------------
(* Column normalization on every bounded header row *)

InitNormalize ==
    /\ pc = "normalize"
    /\ sheet_url = HardcodedUrl
    /\ csv_export_url = create_google_sheet_csv_url(HardcodedUrl)
    /\ src_columns \in HeaderInputs
    /\ columns = src_columns
    /\ bound = {"csv_export_url", "df"}
    /\ NoFrame

NextNormalize == Normalize

SpecNormalize == InitNormalize /\ [][NextNormalize]_vars

----------------------------------------------------------------------------
(* Properties *)

Shown(notice) == \E k \in 1..Len(ui) : ui[k] = notice

TimesShown(notice) == Cardinality({k \in 1..Len(ui) : ui[k] = notice})

\* the invocation got a table from read_csv
Fetched == "df" \in bound

\* C1: once the counts of lines 73-75 are assigned, total_tasks is the number
\* of rows and completed_tasks + pending_tasks = total_tasks; once the Tatkal
\* counts of lines 93-94 are assigned, completed_tatkal_tasks +
\* pending_tatkal_tasks = total_tatkal_tasks, total_tatkal_tasks <=
\* total_tasks and completed_tatkal_tasks <= completed_tasks; no count is
\* negative.
C1_CountsAddUp ==
    /\ "total_tasks" \in bound =>
        /\ metrics.total_tasks = Len(rows)
        /\ metrics.completed_tasks + metrics.pending_tasks = metrics.total_tasks
        /\ metrics.completed_tasks >= 0
        /\ metrics.pending_tasks >= 0
    /\ "total_tatkal_tasks" \in bound =>
        /\ metrics.total_tatkal_tasks >= 0
        /\ metrics.total_tatkal_tasks <= metrics.total_tasks
    /\ "completed_tatkal_tasks" \in bound =>
        /\ metrics.completed_tatkal_tasks + metrics.pending_tatkal_tasks
             = metrics.total_tatkal_tasks
        /\ metrics.completed_tatkal_tasks <= metrics.completed_tasks
        /\ metrics.completed_tatkal_tasks >= 0
        /\ metrics.pending_tatkal_tasks >= 0

\* an invocation that rendered everything, with a completed and a pending
\* Tatkal row
C1_Witness ==
    /\ pc = "done"
    /\ Shown(RawDataView)
    /\ metrics.completed_tatkal_tasks >= 1
    /\ metrics.pending_tatkal_tasks >= 1

\* a text that is not empty after trimming: some character is no whitespace
NonBlank(text) == \E k \in 1..Len(text) : text[k] \notin Whitespace

\* C2: for a table with a remarks column, line 61 gives every row one status,
\* Completed or Pending, and it is Completed exactly when the row's remarks
\* cell is present (not NaN) and has a character that is not whitespace.
C2_StatusIffRemarks ==
    /\ (Fetched /\ Has(columns, Remarks) /\ pc \notin {"normalize", "status"})
          => "status" \in bound
    /\ "status" \in bound =>
        /\ Len(status) = Len(rows)
        /\ \A i \in 1..Len(rows) :
            LET x == rows[i][ColumnOf(columns, Remarks)]
            IN  /\ status[i] \in {"Completed", "Pending"}
                /\ status[i] = "Completed" <=> (x.kind # "nan" /\ NonBlank(x.text))

\* a table with a Completed row and a row that is Pending for a remarks
\* cell of whitespace only
C2_Witness ==
    /\ "status" \in bound
    /\ \E i, j \in 1..Len(rows) :
        /\ status[i] = "Completed"
        /\ status[j] = "Pending"
        /\ rows[j][ColumnOf(columns, Remarks)].kind = "str"

\* text is "tatkal" in any case, with any whitespace around it
IsTatkalLabel(text) ==
    \E a \in 0..Len(text) :
        /\ a + Len(Tatkal) <= Len(text)
        /\ \A k \in 1..a : text[k] \in Whitespace
        /\ \A k \in 1..Len(Tatkal) : LowerChar(text[a + k]) = Tatkal[k]
        /\ \A k \in (a + Len(Tatkal) + 1)..Len(text) : text[k] \in Whitespace

\* C3: a row's is_tatkal is true exactly when df has a priority column and
\* the row's priority cell is a text that is "tatkal" once trimmed and
\* lower-cased; before is_tatkal is assigned no row has it.
C3_TatkalIffPriority ==
    /\ "is_tatkal" \notin bound => is_tatkal = <<>>
    /\ "is_tatkal" \in bound =>
        /\ Len(is_tatkal) = Len(rows)
        /\ \A i \in 1..Len(rows) :
            is_tatkal[i] <=>
                /\ Has(columns, Priority)
                /\ rows[i][ColumnOf(columns, Priority)].kind = "str"
                /\ IsTatkalLabel(rows[i][ColumnOf(columns, Priority)].text)

\* a row flagged for a label that is not literally "tatkal", beside a row
\* with a missing priority cell that is not flagged
C3_Witness ==
    /\ "is_tatkal" \in bound
    /\ Has(columns, Priority)
    /\ \E i, j \in 1..Len(rows) :
        /\ is_tatkal[i]
        /\ rows[i][ColumnOf(columns, Priority)].text # Tatkal
        /\ ~is_tatkal[j]
        /\ rows[j][ColumnOf(columns, Priority)].kind = "nan"

DocSegment == <<"/", "d", "/">>

\* the positions of url where "/d/" is followed by an identifier character
IdStarts(url) ==
    {i \in 1..Len(url) :
        /\ i + 3 <= Len(url)
        /\ SubSeq(url, i, i + 2) = DocSegment
        /\ url[i + 3] \in IdChars}

HasDocSegment(url) ==
    \E i \in 1..Len(url) : i + 2 <= Len(url) /\ SubSeq(url, i, i + 2) = DocSegment

\* the identifier that follows the first "/d/" that has one: the longest run
\* of identifier characters there
FirstId(url) ==
    LET i == CHOOSE i \in IdStarts(url) : \A k \in IdStarts(url) : i <= k
        e == CHOOSE e \in (i + 3)..Len(url) :
                /\ \A k \in (i + 3)..e : url[k] \in IdChars
                /\ e = Len(url) \/ url[e + 1] \notin IdChars
    IN  SubSeq(url, i + 3, e)

\* C4: create_google_sheet_csv_url returns the export URL of the identifier
\* that follows the first "/d/" followed by an identifier character (for
\* .../d/<id>/... the text between "/d/" and the next "/"), and None for a
\* URL with no such place, in particular for every URL with no "/d/".
C4_Resolve ==
    pc \in {"fetch", "done"} =>
        /\ IdStarts(sheet_url) = {} => csv_export_url = None
        /\ ~HasDocSegment(sheet_url) => csv_export_url = None
        /\ IdStarts(sheet_url) # {} =>
            /\ csv_export_url = ExportPrefix \o FirstId(sheet_url) \o ExportSuffix
            /\ \A i \in IdStarts(sheet_url), j \in 1..Len(sheet_url) :
                (/\ \A k \in IdStarts(sheet_url) : i <= k
                 /\ j > i + 3
                 /\ sheet_url[j] = "/"
                 /\ \A k \in (i + 3)..(j - 1) : sheet_url[k] \in IdChars)
                => csv_export_url =
                     ExportPrefix \o SubSeq(sheet_url, i + 3, j - 1) \o ExportSuffix

\* the URL https://example.com/spreadsheets/d/ABC123xyz/edit resolved
C4_Witness ==
    /\ pc = "fetch"
    /\ sheet_url = ExampleUrl
    /\ csv_export_url = ExportPrefix \o <<"A", "B", "C", "1", "2", "3", "x", "y", "z">> \o ExportSuffix

\* the invocation ended at line 44: the URL resolved and read_csv raised
FetchFailed == pc = "done" /\ csv_export_url # None /\ ~Fetched

\* C5: when read_csv raises, the invocation ends with the two failure
\* notices of lines 153-154 and nothing else: no table, no success notice, no
\* status or is_tatkal, no count, no chart, no raw data view.
C5_FetchFailureAborts ==
    FetchFailed =>
        /\ ui = <<FailureNotice, FailureDetail>>
        /\ bound = {"csv_export_url"}
        /\ rows = <<>> /\ columns = <<>> /\ dtypes = <<>>
        /\ status = <<>> /\ is_tatkal = <<>>
        /\ metrics = NoMetrics
        /\ divisions = <<>>

C5_Witness == FetchFailed /\ Shown(FailureNotice) /\ sheet_url = HardcodedUrl

\* C6: when the fetched table has no priority column, the invocation ends
\* without a failure notice, is_tatkal is False on every row, the
\* missing-priority warning is shown exactly once, and the counts and the
\* raw data view are produced with total_tatkal_tasks = 0.  (Stated for the
\* tables that do have a remarks column.)
C6_MissingPrioritySucceeds ==
    (pc = "done" /\ Fetched /\ Has(columns, Remarks) /\ ~Has(columns, Priority)) =>
        /\ ~Shown(FailureNotice)
        /\ "is_tatkal" \in bound
        /\ Len(is_tatkal) = Len(rows)
        /\ \A i \in 1..Len(is_tatkal) : ~is_tatkal[i]
        /\ TimesShown(MissingPriorityWarning) = 1
        /\ {"total_tasks", "completed_tasks", "pending_tasks",
            "total_tatkal_tasks"} \subseteq bound
        /\ metrics.total_tatkal_tasks = 0
        /\ Shown(RawDataView)

\* C7: no division has a zero denominator, and an invocation that fetched a
\* table of no rows ends without a failure notice, with every count 0 and
\* the raw data view shown.  (Stated for the tables that do have a remarks
\* column.)
C7_NoZeroDenominator ==
    /\ \A k \in 1..Len(divisions) : divisions[k][2] # 0
    /\ (pc = "done" /\ Fetched /\ Has(columns, Remarks) /\ Len(rows) = 0) =>
        /\ ~Shown(FailureNotice)
        /\ metrics = NoMetrics
        /\ Shown(RawDataView)

\* C8: once the success notice is shown for a table of at least one row, no
\* failure notice is shown, and the invocation ends with the raw data view.
C8_OnlyFetchIsTerminal ==
    (Shown(SuccessNotice) /\ Len(rows) >= 1) =>
        /\ ~Shown(FailureNotice)
        /\ pc = "done" => Shown(RawDataView)

\* the rename table with the name lines 52-58 give "sr.no."
RenamedAs(name, srNoName) ==
    CASE name = K_sr_no_dot -> srNoName
      [] name = K_dor -> V_date_of_receipt
      [] name = K_completion_date -> V_completion_date
      [] name = K_action_taken -> V_action_taken
      [] OTHER -> name

ColumnsAre(srNoName) ==
    /\ Len(columns) = Len(src_columns)
    /\ \A i \in 1..Len(columns) :
        columns[i] = RenamedAs(Lower(Strip(src_columns[i])), srNoName)

V_sequence_no == <<"s", "e", "q", "u", "e", "n", "c", "e", "_", "n", "o">>

C10_NormalizeIdempotent == pc = "status" => NormalizeColumns(columns) = columns

\* a header row that the first pass changed in a renamed and in a padded name
C10_Witness ==
    /\ pc = "status"
    /\ \E i, j \in 1..Len(columns) :
        /\ src_columns[i] = <<" ", "D", ".", "O", ".", "R">>
        /\ columns[i] = V_date_of_receipt
        /\ src_columns[j] = <<"\t", "r", "e", "m", "a", "r", "k", "s", " ">>
        /\ columns[j] = Remarks

====
